---- MODULE Spec2Model ----
(***************************************************************************)
(* Model of gh-assistant's push workflow: the two command handlers runPush *)
(* (the "push" command) and runPushx (the "pushx" command), the git        *)
(* wrapper they drive (internal/git), the message generator (internal/ai)  *)
(* and the Jira client (internal/jira).                                    *)
(*                                                                         *)
(* Texts (commit messages, titles, console lines) are sequences of tokens; *)
(* the token " - " is the delimiter the code splits and joins on, "\n" is  *)
(* the newline, " " is white space.  The repository is the working tree    *)
(* (staged / unstaged), the branch with its upstream tracking ref and the  *)
(* list of local commits that are not on the remote.                       *)
(***************************************************************************)
EXTENDS Integers, Sequences, FiniteSets, TLC

VARIABLES
    \* ---- the repository and the configuration (persist across runs)
    branch,            \* name of the checked-out branch
    staged,            \* the index holds staged changes
    unstaged,          \* the working tree holds unstaged changes
    upstream,          \* <branch>@{upstream} resolves
    unpushed,          \* subjects of the local commits not on the remote, newest first
    jiraCfg,           \* jira.Config read from the persisted configuration
    remotes,           \* names of the configured remotes, as git remote lists them
    runLimit,          \* how many times the developer invokes the command
    \* ---- one run of the command
    pc,                \* position in the handler
    command,           \* "push" (runPush) or "pushx" (runPushx)
    stageAll,          \* flag --all
    autoConfirm,       \* flag --yes
    hasStaged,
    unpushedMessages,
    needsCommit,
    diff,
    message,
    lines,             \* lines collected by the edit loop
    eof,               \* the reader of the confirmation block has hit end of input
    isFirstPush,
    isMainBranch,
    result,            \* "running", "nil" or the error the handler returned
    \* ---- history
    log,               \* operations of the current run, in order
    tree0,             \* staged/unstaged/upstream state when the run started
    runs,              \* runs started so far
    ticketRuns         \* runs in which CreateIssueWithTitle was called

world == <<branch, staged, unstaged, upstream, unpushed, jiraCfg, remotes, runLimit>>
local == <<pc, command, stageAll, autoConfirm, hasStaged, unpushedMessages,
           needsCommit, diff, message, lines, eof, isFirstPush, isMainBranch,
           result>>
hist  == <<log, tree0, runs, ticketRuns>>
vars  == <<world, local, hist>>

----------------------------------------------------------------------------
\* Bounds of the model

MaxRepeat == 2
MaxInitUnpushed == 1
MaxLines == 2
MaxRemotes == 2
MaxOver == 1
MaxWide == 1
MaxCalls == 2

\* buildCommitPrompt: maxDiffLen := 12000
maxDiffLen == 12000

----------------------------------------------------------------------------
\* Texts

DELIM == " - "
NL == "\n"
SP == " "

Branches == {"main", "master", "feature/x"}

\* Subjects of the commits the branch may already hold.
Subjects == { <<"wip">>, <<"a", DELIM, "b">> }

\* Raw texts the generation backend may answer with (before TrimSpace).
RawOutputs == { <<"feat">>, <<SP, "fix", DELIM, "x", NL>>, <<SP>> }

\* Names a remote may have, and the lists of remotes a repository may be
\* configured with (git allows a name once).
RemoteNames == { <<"origin">>, <<"up">>, <<"fork">> }
RemoteLists ==
    UNION { { f \in [1..n -> RemoteNames] :
                \A i, j \in 1..n : i # j => f[i] # f[j] } : n \in 0..MaxRemotes }

\* A diff text by its size: `narrow` characters of one byte, then `wide`
\* characters of two bytes, then `half` leading bytes (0 or 1) of a two-byte
\* character that was cut.  The diffs handed to the generator are whole
\* texts whose size lies around the budget.
DiffTexts ==
    { [narrow |-> n, wide |-> w, half |-> 0] :
        n \in {1} \cup ((maxDiffLen - MaxOver - 2 * MaxWide)..(maxDiffLen + MaxOver)),
        w \in 0..MaxWide }

\* Keys Jira gives to the issues it creates: <PROJECT>-<number>, one token.
IssueKeys == { <<"P-1">>, <<"P-20">> }

\* The key Jira answers with in the runs of the commands.
RunKeys == { <<"P-1">> }

\* Messages a run can stand with when it reaches the ticket block.
TicketMessages ==
    { <<"feat">>, <<"fix", DELIM, "x">>, <<"a", DELIM, "b", DELIM, "c">>,
      <<"one", NL, "two">> }

\* Lines the user may type in the edit loop (without the line terminator).
EditLines == { <<>>, <<"one">>, <<"two">> }

\* Answers the user may type at a confirmation prompt.
Answers == { <<>>, <<"y">>, <<"Y">>, <<"yes">>, <<"n">>, <<"no">>, <<SP, "N">>,
             <<"e">>, <<"edit">>, <<"q">> }

JiraConfigs == [BaseURL : {"", "u"}, Email : {"", "m"},
                APIToken : {"", "t"}, Project : {"", "P"}]

\* The configurations the runs are explored with: complete, and with the
\* project key missing.
RunConfigs == {c \in JiraConfigs : c.BaseURL = "u" /\ c.Email = "m" /\ c.APIToken = "t"}

IsSpace(t) == t = SP \/ t = NL

RECURSIVE TrimLeft(_)
TrimLeft(s) == IF s # <<>> /\ IsSpace(Head(s)) THEN TrimLeft(Tail(s)) ELSE s

RECURSIVE TrimRight(_)
TrimRight(s) ==
    IF s # <<>> /\ IsSpace(s[Len(s)]) THEN TrimRight(SubSeq(s, 1, Len(s) - 1)) ELSE s

\* strings.TrimSpace
TrimSpace(s) == TrimRight(TrimLeft(s))

\* strings.ToLower on the tokens a prompt can receive
ToLower(s) ==
    [i \in 1..Len(s) |-> CASE s[i] = "Y" -> "y" [] s[i] = "N" -> "n" [] OTHER -> s[i]]

\* Index of the first occurrence of token t in s, 0 if there is none.
IndexOf(s, t) ==
    IF \E i \in 1..Len(s) : s[i] = t
    THEN CHOOSE i \in 1..Len(s) : s[i] = t /\ \A j \in 1..(i - 1) : s[j] # t
    ELSE 0

\* SplitN2 cutting at the last delimiter instead of the first.
SplitN2_Last(s) ==
    IF \E i \in 1..Len(s) : s[i] = DELIM
    THEN LET i == CHOOSE i \in 1..Len(s) :
                      s[i] = DELIM /\ \A j \in (i + 1)..Len(s) : s[j] # DELIM
         IN <<SubSeq(s, 1, i - 1), SubSeq(s, i + 1, Len(s))>>
    ELSE <<s>>

\* strings.SplitN(s, " - ", 2)
SplitN2(s) ==
    LET i == IndexOf(s, DELIM)
    IN IF i = 0 THEN <<s>>
       ELSE <<SubSeq(s, 1, i - 1), SubSeq(s, i + 1, Len(s))>>

RECURSIVE Join(_, _)
\* strings.Join(ls, sep)
Join(ls, sep) ==
    IF ls = <<>> THEN <<>>
    ELSE IF Len(ls) = 1 THEN ls[1]
    ELSE ls[1] \o <<sep>> \o Join(Tail(ls), sep)

RECURSIVE Split(_, _)
\* strings.Split(s, sep): the pieces between the separators; a text without
\* the separator, the empty text included, is one piece.
Split(s, sep) ==
    LET i == IndexOf(s, sep)
    IN IF i = 0 THEN <<s>>
       ELSE <<SubSeq(s, 1, i - 1)>> \o Split(SubSeq(s, i + 1, Len(s)), sep)

\* The subject git reports with %s: the first line of the commit message.
Subject(m) ==
    LET i == IndexOf(m, NL) IN IF i = 0 THEN m ELSE SubSeq(m, 1, i - 1)

----------------------------------------------------------------------------
\* internal/git: queries as functions of the repository

----------------------------------------------------------------------------
\* internal/ai: the diff part of the prompt

\* len(diff): the length of a Go string is its number of bytes
ByteLen(t) == t.narrow + 2 * t.wide + t.half

\* diff[:k] for k <= len(diff): the first k bytes
Slice(t, k) ==
    IF k <= t.narrow THEN [narrow |-> k, wide |-> 0, half |-> 0]
    ELSE [narrow |-> t.narrow,
          wide |-> (k - t.narrow) \div 2,
          half |-> (k - t.narrow) % 2]

\* TruncatedDiff that also cuts a diff of exactly the budget.
TruncatedDiff_AtBudget(d) ==
    IF ByteLen(d) >= maxDiffLen
    THEN [text |-> Slice(d, maxDiffLen), marker |-> TRUE]
    ELSE [text |-> d, marker |-> FALSE]

\* truncatedDiff of buildCommitPrompt; marker tells whether
\* "\n... [diff truncated]" follows the text.
TruncatedDiff(d) ==
    IF ByteLen(d) > maxDiffLen
    THEN [text |-> Slice(d, maxDiffLen), marker |-> TRUE]
    ELSE [text |-> d, marker |-> FALSE]

----------------------------------------------------------------------------
\* internal/git: queries as functions of the repository (continued)

RECURSIVE RemoteOutput(_)
\* What g.run("remote") returns: git prints one name per line, run trims the
\* output.
RemoteOutput(rs) ==
    IF rs = <<>> THEN <<>>
    ELSE TrimSpace(Head(rs) \o <<NL>> \o RemoteOutput(Tail(rs)))

\* GetRemote: the remote a push goes to, or an error.
GetRemoteOf(rs) ==
    LET names == Split(RemoteOutput(rs), NL)
    IN IF Len(names) = 0
       THEN [err |-> "no remote configured", name |-> <<>>]
       ELSE IF \E i \in 1..Len(names) : names[i] = <<"origin">>
       THEN [err |-> "", name |-> <<"origin">>]
       ELSE [err |-> "", name |-> names[1]]

\* IsMainBranchOf that knows "main" only.
IsMainBranchOf_OnlyMain(b) == b = "main"

IsMainBranchOf(b) == b = "main" \/ b = "master"

\* IsFirstPushToBranchOf answering true on both paths.
IsFirstPushToBranchOf_Always(up) == TRUE

IsFirstPushToBranchOf(up) == ~up

\* "%h - %s" for every commit of upstream..HEAD; empty when there is no upstream
GetUnpushedCommitMessagesOf(up, unp) ==
    IF ~up THEN <<>>
    ELSE [i \in 1..Len(unp) |-> <<"h">> \o <<DELIM>> \o unp[i]]

\* GetUnpushedCommitMessages that reports a missing upstream as a failure.
GetUnpushedCommitMessages_NoUpstreamIsError(branchOk, up, logOk, unp) ==
    IF ~branchOk THEN [msgs |-> <<>>, err |-> "git rev-parse failed"]
    ELSE IF ~up THEN [msgs |-> <<>>, err |-> "no upstream"]
    ELSE IF ~logOk THEN [msgs |-> <<>>, err |-> "git log failed"]
    ELSE [msgs |-> GetUnpushedCommitMessagesOf(up, unp), err |-> ""]

\* GetUnpushedCommitMessages: the current branch is resolved, then its
\* upstream (none is no error), then the commits are listed.
GetUnpushedCommitMessages(branchOk, up, logOk, unp) ==
    IF ~branchOk THEN [msgs |-> <<>>, err |-> "git rev-parse failed"]
    ELSE IF ~up THEN [msgs |-> <<>>, err |-> ""]
    ELSE IF ~logOk THEN [msgs |-> <<>>, err |-> "git log failed"]
    ELSE [msgs |-> GetUnpushedCommitMessagesOf(up, unp), err |-> ""]

\* git diff --cached
GetStagedDiffOf(st) == IF st THEN "staged" ELSE ""

\* git diff <upstream>..HEAD, or the diff against the empty tree without upstream
GetUnpushedDiffOf(up, unp) ==
    IF ~up THEN "tree" ELSE IF unp # <<>> THEN "commits" ELSE ""

\* git diff HEAD
GetAllDiffOf(st, unst) == IF st \/ unst THEN "worktree" ELSE ""

\* internal/jira
\* IsConfigured that does not look at the project key.
IsConfigured_IgnoresProject(c) ==
    c.BaseURL # "" /\ c.Email # "" /\ c.APIToken # ""

IsConfigured(c) ==
    c.BaseURL # "" /\ c.Email # "" /\ c.APIToken # "" /\ c.Project # ""

----------------------------------------------------------------------------
\* History helpers

Ev(op, arg, ok) == [op |-> op, arg |-> arg, ok |-> ok]

----------------------------------------------------------------------------
\* Initial states: any repository on any branch, no run started yet

\* The commits a branch may hold that are not on the remote.
InitUnpushed == UNION {[1..n -> Subjects] : n \in 0..MaxInitUnpushed}

\* No run has started.
Fresh ==
    /\ pc = "idle"
    /\ command = "push"
    /\ stageAll = FALSE
    /\ autoConfirm = FALSE
    /\ hasStaged = FALSE
    /\ unpushedMessages = <<>>
    /\ needsCommit = FALSE
    /\ diff = ""
    /\ message = <<>>
    /\ lines = <<>>
    /\ eof = FALSE
    /\ isFirstPush = FALSE
    /\ isMainBranch = FALSE
    /\ result = "nil"
    /\ log = <<>>
    /\ tree0 = [staged |-> staged, unstaged |-> unstaged, upstream |-> upstream]
    /\ runs = 0
    /\ ticketRuns = 0

\* One invocation of the command, in any repository.
Init ==
    /\ branch \in Branches
    /\ staged \in BOOLEAN
    /\ unstaged \in BOOLEAN
    /\ upstream \in BOOLEAN
    /\ unpushed \in InitUnpushed
    /\ jiraCfg \in RunConfigs
    /\ remotes = <<<<"origin">>>>
    /\ runLimit = 1
    /\ Fresh

\* Repeated runs on one feature branch with Jira configured.
InitRepeat ==
    /\ branch = "feature/x"
    /\ staged \in BOOLEAN
    /\ unstaged \in BOOLEAN
    /\ upstream \in BOOLEAN
    /\ unpushed \in InitUnpushed
    /\ jiraCfg \in {c \in RunConfigs : IsConfigured(c)}
    /\ remotes = <<<<"origin">>>>
    /\ runLimit = MaxRepeat
    /\ Fresh

\* A single run on a feature branch, whatever remotes are configured.
InitRemote ==
    /\ branch = "feature/x"
    /\ staged \in BOOLEAN
    /\ unstaged \in BOOLEAN
    /\ upstream \in BOOLEAN
    /\ unpushed \in InitUnpushed
    /\ jiraCfg \in {c \in RunConfigs : IsConfigured(c)}
    /\ remotes \in RemoteLists
    /\ runLimit = 1
    /\ Fresh

\* The handler returns e ("nil" for a nil error).
Return(e) ==
    /\ pc' = "done"
    /\ result' = e

\* The handler moves on to position p.
Goto(p) ==
    /\ pc' = p
    /\ UNCHANGED result

Logged(op, arg, ok) == log' = Append(log, Ev(op, arg, ok))

\* AfterConfirm that commits whether or not a commit is needed.
AfterConfirm_AlwaysCommit == "commit"

\* Position that follows the message confirmation.
AfterConfirm ==
    IF command = "push" \/ needsCommit THEN "commit" ELSE "snapshot"

----------------------------------------------------------------------------
\* The command is invoked: flags are parsed, the API key and the repository
\* are checked.

StartRun(c, a, y, keyOk, repoOk) ==
    /\ pc = "idle"
    /\ runs < runLimit
    /\ command' = c
    /\ stageAll' = a
    /\ autoConfirm' = y
    /\ hasStaged' = FALSE
    /\ unpushedMessages' = <<>>
    /\ needsCommit' = FALSE
    /\ diff' = ""
    /\ message' = <<>>
    /\ lines' = <<>>
    /\ eof' = FALSE
    /\ isFirstPush' = FALSE
    /\ isMainBranch' = FALSE
    /\ log' = <<>>
    /\ tree0' = [staged |-> staged, unstaged |-> unstaged, upstream |-> upstream]
    /\ runs' = runs + 1
    /\ IF ~keyOk THEN Return("API key not configured")
       ELSE IF ~repoOk THEN Return("not a git repository")
       ELSE pc' = "stageAll" /\ result' = "running"
    /\ UNCHANGED <<world, ticketRuns>>

\* Between two runs the developer changes the working tree (edits files,
\* git add, git restore); the finished process is gone.
UserEdits(s, u) ==
    /\ pc = "done"
    /\ staged' = s
    /\ unstaged' = u
    /\ pc' = "idle"
    /\ result' = "nil"
    /\ command' = "push"
    /\ stageAll' = FALSE
    /\ autoConfirm' = FALSE
    /\ hasStaged' = FALSE
    /\ unpushedMessages' = <<>>
    /\ needsCommit' = FALSE
    /\ diff' = ""
    /\ message' = <<>>
    /\ lines' = <<>>
    /\ eof' = FALSE
    /\ isFirstPush' = FALSE
    /\ isMainBranch' = FALSE
    /\ log' = <<>>
    /\ tree0' = [staged |-> s, unstaged |-> u, upstream |-> upstream]
    /\ UNCHANGED <<branch, upstream, unpushed, jiraCfg, remotes, runLimit, runs, ticketRuns>>

\* StageAllStep with the error of g.StageAll dropped.
StageAllStep_IgnoreError(ok) ==
    /\ pc = "stageAll"
    /\ IF ~stageAll THEN
            /\ Goto("hasStaged")
            /\ UNCHANGED <<staged, unstaged, log>>
       ELSE IF ok THEN
            /\ staged' = (staged \/ unstaged)
            /\ unstaged' = FALSE
            /\ Logged("stageAll", <<>>, TRUE)
            /\ Goto("hasStaged")
       ELSE /\ Logged("stageAll", <<>>, FALSE)
            /\ Goto("hasStaged")
            /\ UNCHANGED <<staged, unstaged>>
    /\ UNCHANGED <<branch, upstream, unpushed, jiraCfg, remotes, runLimit>>
    /\ UNCHANGED <<command, stageAll, autoConfirm, hasStaged, unpushedMessages,
                   needsCommit, diff, message, lines, eof, isFirstPush, isMainBranch>>
    /\ UNCHANGED <<tree0, runs, ticketRuns>>

\* if stageAll { g.StageAll() }
StageAllStep(ok) ==
    /\ pc = "stageAll"
    /\ IF ~stageAll THEN
            /\ Goto("hasStaged")
            /\ UNCHANGED <<staged, unstaged, log>>
       ELSE IF ok THEN
            /\ staged' = (staged \/ unstaged)
            /\ unstaged' = FALSE
            /\ Logged("stageAll", <<>>, TRUE)
            /\ Goto("hasStaged")
       ELSE /\ Logged("stageAll", <<>>, FALSE)
            /\ Return("failed to stage changes")
            /\ UNCHANGED <<staged, unstaged>>
    /\ UNCHANGED <<branch, upstream, unpushed, jiraCfg, remotes, runLimit>>
    /\ UNCHANGED <<command, stageAll, autoConfirm, hasStaged, unpushedMessages,
                   needsCommit, diff, message, lines, eof, isFirstPush, isMainBranch>>
    /\ UNCHANGED <<tree0, runs, ticketRuns>>

\* hasStaged, err := g.HasStagedChanges()
HasStagedStep(ok) ==
    /\ pc = "hasStaged"
    /\ IF ok THEN
            /\ hasStaged' = staged
            /\ Logged("hasStaged", <<>>, TRUE)
            /\ Goto(IF command = "push" THEN "unpushedMsgs"
                    ELSE IF staged THEN "stagedDiff" ELSE "unpushedDiff")
       ELSE /\ Logged("hasStaged", <<>>, FALSE)
            /\ Return("failed to check staged changes")
            /\ UNCHANGED hasStaged
    /\ UNCHANGED world
    /\ UNCHANGED <<command, stageAll, autoConfirm, unpushedMessages,
                   needsCommit, diff, message, lines, eof, isFirstPush, isMainBranch>>
    /\ UNCHANGED <<tree0, runs, ticketRuns>>

\* UnpushedMsgsStep that looks at the unpushed commits before the staged
\* changes.
UnpushedMsgsStep_UnpushedFirst(branchOk, logOk) ==
    /\ pc = "unpushedMsgs"
    /\ LET r == GetUnpushedCommitMessages(branchOk, upstream, logOk, unpushed)
       IN /\ unpushedMessages' = r.msgs
          /\ Logged("unpushedMsgs", <<>>, r.err = "")
          /\ Goto(IF Len(r.msgs) > 0 THEN "noStaged"
                  ELSE IF hasStaged THEN "stagedDiff" ELSE "noStaged")
    /\ UNCHANGED world
    /\ UNCHANGED <<command, stageAll, autoConfirm, hasStaged,
                   needsCommit, diff, message, lines, eof, isFirstPush, isMainBranch>>
    /\ UNCHANGED <<tree0, runs, ticketRuns>>

\* runPush: unpushedMessages, _ := g.GetUnpushedCommitMessages(); the error
\* is dropped and the list is then empty.  if hasStaged { ... } else { ... }
UnpushedMsgsStep(branchOk, logOk) ==
    /\ pc = "unpushedMsgs"
    /\ LET r == GetUnpushedCommitMessages(branchOk, upstream, logOk, unpushed)
       IN /\ unpushedMessages' = r.msgs
          /\ Logged("unpushedMsgs", <<>>, r.err = "")
    /\ Goto(IF hasStaged THEN "stagedDiff" ELSE "noStaged")
    /\ UNCHANGED world
    /\ UNCHANGED <<command, stageAll, autoConfirm, hasStaged,
                   needsCommit, diff, message, lines, eof, isFirstPush, isMainBranch>>
    /\ UNCHANGED <<tree0, runs, ticketRuns>>

\* diff, err := g.GetStagedDiff()   (runPushx also sets needsCommit).  The
\* text git prints for the staged paths can be empty (an external diff
\* driver that prints nothing): shown tells whether it is not.
StagedDiffStep(ok, shown) ==
    /\ pc = "stagedDiff"
    /\ Logged("stagedDiff", <<>>, ok)
    /\ IF ok THEN
            /\ diff' = IF shown THEN GetStagedDiffOf(staged) ELSE ""
            /\ needsCommit' = (command = "pushx")
            /\ Goto("generate")
       ELSE /\ Return("failed to get staged diff")
            /\ UNCHANGED <<diff, needsCommit>>
    /\ UNCHANGED world
    /\ UNCHANGED <<command, stageAll, autoConfirm, hasStaged, unpushedMessages,
                   message, lines, eof, isFirstPush, isMainBranch>>
    /\ UNCHANGED <<tree0, runs, ticketRuns>>

\* runPushx without staged changes: the diff of the unpushed commits, with
\* its fallback to the diff against HEAD.
UnpushedDiffStep(ok1, ok2, ok3) ==
    /\ pc = "unpushedDiff"
    /\ LET d == IF ok1 THEN GetUnpushedDiffOf(upstream, unpushed)
                ELSE GetAllDiffOf(staged, unstaged)
           hasUnstaged == ok3 /\ unstaged
           queried == log \o <<Ev("unpushedDiff", <<>>, ok1)>>
                          \o (IF ok1 THEN <<>> ELSE <<Ev("allDiff", <<>>, ok2)>>)
       IN IF ~ok1 /\ ~ok2 THEN
               /\ Return("failed to get diff")
               /\ log' = queried
               /\ UNCHANGED diff
          ELSE IF d = "" THEN
               /\ Return(IF hasUnstaged THEN "you have unstaged changes"
                         ELSE "no changes to commit or push")
               /\ log' = Append(queried, Ev("hasUnstaged", <<>>, ok3))
               /\ diff' = d
          ELSE /\ diff' = d
               /\ log' = queried
               /\ Goto("generate")
    /\ UNCHANGED world
    /\ UNCHANGED <<command, stageAll, autoConfirm, hasStaged, unpushedMessages,
                   needsCommit, message, lines, eof, isFirstPush, isMainBranch>>
    /\ UNCHANGED <<tree0, runs, ticketRuns>>

\* runPush without staged changes: nothing to push is an error.
NoStagedStep(ok) ==
    /\ pc = "noStaged"
    /\ LET hasUnpushed == Len(unpushedMessages) > 0
           hasUnstaged == ok /\ unstaged
       IN IF ~hasUnpushed THEN
               /\ Logged("hasUnstaged", <<>>, ok)
               /\ Return(IF hasUnstaged THEN "you have unstaged changes"
                         ELSE "no changes to commit or push")
          ELSE /\ Goto("confirmPush")
               /\ UNCHANGED log
    /\ UNCHANGED world
    /\ UNCHANGED <<command, stageAll, autoConfirm, hasStaged, unpushedMessages,
                   needsCommit, diff, message, lines, eof, isFirstPush, isMainBranch>>
    /\ UNCHANGED <<tree0, runs, ticketRuns>>

\* The decision a normalised answer stands for at the message prompt.
Decision(input) ==
    IF input = <<"n">> \/ input = <<"no">> THEN "reject"
    ELSE IF input = <<"e">> \/ input = <<"edit">> THEN "edit"
    ELSE IF input = <<>> \/ input = <<"y">> \/ input = <<"yes">> THEN "accept"
    ELSE "invalid"

\* What a normalised answer is at the push prompt, which offers Y and n
\* only.
PushAnswer(input) ==
    IF Decision(input) \in {"reject", "accept"} THEN Decision(input) ELSE "invalid"

\* runPush without staged changes: "Push these commits? [Y/n]", then the
\* message of the most recent unpushed commit becomes the ticket title.
ConfirmPushStep(in) ==
    /\ pc = "confirmPush"
    /\ LET input == TrimSpace(ToLower(in))
           parts == SplitN2(unpushedMessages[1])
       IN /\ IF autoConfirm THEN UNCHANGED log
             ELSE Logged("confirmPush", <<PushAnswer(input)>>, TRUE)
          /\ IF ~autoConfirm /\ (input = <<"n">> \/ input = <<"no">>) THEN
               /\ Return("nil")
               /\ UNCHANGED message
             ELSE /\ message' = IF Len(parts) = 2 THEN parts[2] ELSE message
                  /\ Goto("snapshot")
    /\ UNCHANGED world
    /\ UNCHANGED <<command, stageAll, autoConfirm, hasStaged, unpushedMessages,
                   needsCommit, diff, lines, eof, isFirstPush, isMainBranch>>
    /\ UNCHANGED <<tree0, runs, ticketRuns>>

\* NoDiff that never finds the diff empty.
NoDiff_Never(d) == FALSE

\* if diff == "": the test runPushx makes before the generator is set up and
\* GenerateCommitMessage makes before the prompt is built.
NoDiff(d) == d = ""

\* GenerateStep with the generator's error dropped.
GenerateStep_IgnoreError(ok, raw) ==
    /\ pc = "generate"
    /\ IF command = "pushx" /\ NoDiff(diff) THEN
            /\ Return("no changes detected")
            /\ UNCHANGED <<message, log>>
       ELSE IF NoDiff(diff) THEN
            /\ Logged("generate", <<>>, FALSE)
            /\ Goto("confirm")
            /\ UNCHANGED message
       ELSE IF ~ok THEN
            /\ log' = log \o <<Ev("request", <<>>, TRUE), Ev("generate", <<>>, FALSE)>>
            /\ Goto("confirm")
            /\ UNCHANGED message
       ELSE /\ message' = TrimSpace(raw)
            /\ log' = log \o <<Ev("request", <<>>, TRUE),
                               Ev("generate", TrimSpace(raw), TRUE)>>
            /\ Goto("confirm")
    /\ UNCHANGED world
    /\ UNCHANGED <<command, stageAll, autoConfirm, hasStaged, unpushedMessages,
                   needsCommit, diff, lines, eof, isFirstPush, isMainBranch>>
    /\ UNCHANGED <<tree0, runs, ticketRuns>>

\* message, err = aiClient.GenerateCommitMessage(diff, changedFiles)
\* (runPushx first refuses an empty diff; the client refuses it as well,
\* before it builds the prompt and sends the request to the provider)
GenerateStep(ok, raw) ==
    /\ pc = "generate"
    /\ IF command = "pushx" /\ NoDiff(diff) THEN
            /\ Return("no changes detected")
            /\ UNCHANGED <<message, log>>
       ELSE IF NoDiff(diff) THEN
            /\ Logged("generate", <<>>, FALSE)
            /\ Return("failed to generate commit message")
            /\ UNCHANGED message
       ELSE IF ~ok THEN
            /\ log' = log \o <<Ev("request", <<>>, TRUE), Ev("generate", <<>>, FALSE)>>
            /\ Return("failed to generate commit message")
            /\ UNCHANGED message
       ELSE /\ message' = TrimSpace(raw)
            /\ log' = log \o <<Ev("request", <<>>, TRUE),
                               Ev("generate", TrimSpace(raw), TRUE)>>
            /\ Goto("confirm")
    /\ UNCHANGED world
    /\ UNCHANGED <<command, stageAll, autoConfirm, hasStaged, unpushedMessages,
                   needsCommit, diff, lines, eof, isFirstPush, isMainBranch>>
    /\ UNCHANGED <<tree0, runs, ticketRuns>>

\* "Proceed with this message? [Y/n/e(dit)]"  (a prompt read at the end of
\* input yields the empty answer)
ConfirmStep(in) ==
    /\ pc = "confirm"
    /\ LET input == TrimSpace(ToLower(in))
           d == Decision(input)
       IN IF autoConfirm THEN
               /\ Goto(AfterConfirm)
               /\ UNCHANGED log
          ELSE /\ Logged("confirm", <<d>>, TRUE)
               /\ IF d = "reject" THEN Return("nil")
                  ELSE IF d = "edit" THEN Goto("edit")
                  ELSE IF d = "accept" THEN Goto(AfterConfirm)
                  ELSE Return("nil")
    /\ lines' = <<>>
    /\ UNCHANGED world
    /\ UNCHANGED <<command, stageAll, autoConfirm, hasStaged, unpushedMessages,
                   needsCommit, diff, message, eof, isFirstPush, isMainBranch>>
    /\ UNCHANGED <<tree0, runs, ticketRuns>>

\* EditReadStep collecting each line in front of the earlier ones.
EditReadStep_Prepend(l, atEof) ==
    /\ pc = "edit"
    /\ LET line == IF eof \/ atEof THEN <<>> ELSE l
       IN IF line = <<>> /\ Len(lines) > 0 THEN
               /\ message' = Join(lines, NL)
               /\ eof' = FALSE
               /\ Goto(AfterConfirm)
               /\ UNCHANGED <<lines, log>>
          ELSE IF line # <<>> THEN
               /\ Len(lines) < MaxLines
               /\ lines' = <<line>> \o lines
               /\ Logged("line", line, TRUE)
               /\ Goto("edit")
               /\ UNCHANGED <<message, eof>>
          ELSE /\ eof' = (eof \/ atEof)
               /\ log' = IF log[Len(log)].op = "blank" THEN log
                         ELSE Append(log, Ev("blank", <<>>, TRUE))
               /\ Goto("edit")
               /\ UNCHANGED <<lines, message>>
    /\ UNCHANGED world
    /\ UNCHANGED <<command, stageAll, autoConfirm, hasStaged, unpushedMessages,
                   needsCommit, diff, isFirstPush, isMainBranch>>
    /\ UNCHANGED <<tree0, runs, ticketRuns>>

\* One iteration of the edit loop: read a line (the empty line at the end of
\* input); an empty line ends the loop once a line has been collected, and
\* the collected lines replace the message.  The reader is local to the
\* confirmation block and is gone when the loop is left.  The log records
\* every line typed, and once that an empty line came before any other.
EditReadStep(l, atEof) ==
    /\ pc = "edit"
    /\ LET line == IF eof \/ atEof THEN <<>> ELSE l
       IN IF line = <<>> /\ Len(lines) > 0 THEN
               /\ message' = Join(lines, NL)
               /\ eof' = FALSE
               /\ Goto(AfterConfirm)
               /\ UNCHANGED <<lines, log>>
          ELSE IF line # <<>> THEN
               /\ Len(lines) < MaxLines
               /\ lines' = Append(lines, line)
               /\ Logged("line", line, TRUE)
               /\ Goto("edit")
               /\ UNCHANGED <<message, eof>>
          ELSE /\ eof' = (eof \/ atEof)
               /\ log' = IF log[Len(log)].op = "blank" THEN log
                         ELSE Append(log, Ev("blank", <<>>, TRUE))
               /\ Goto("edit")
               /\ UNCHANGED <<lines, message>>
    /\ UNCHANGED world
    /\ UNCHANGED <<command, stageAll, autoConfirm, hasStaged, unpushedMessages,
                   needsCommit, diff, isFirstPush, isMainBranch>>
    /\ UNCHANGED <<tree0, runs, ticketRuns>>

\* CommitStep with the error of g.Commit dropped.
CommitStep_IgnoreError(ok) ==
    /\ pc = "commit"
    /\ IF ok /\ staged /\ message # <<>> THEN
            /\ staged' = FALSE
            /\ unpushed' = <<Subject(message)>> \o unpushed
            /\ Logged("commit", message, TRUE)
       ELSE /\ Logged("commit", message, FALSE)
            /\ UNCHANGED <<staged, unpushed>>
    /\ Goto("snapshot")
    /\ UNCHANGED <<branch, unstaged, upstream, jiraCfg, remotes, runLimit>>
    /\ UNCHANGED <<command, stageAll, autoConfirm, hasStaged, unpushedMessages,
                   needsCommit, diff, message, lines, eof, isFirstPush, isMainBranch>>
    /\ UNCHANGED <<tree0, runs, ticketRuns>>

\* g.Commit(message): git refuses an empty message and may fail otherwise
\* (hooks); a commit records the staged changes.
CommitStep(ok) ==
    /\ pc = "commit"
    /\ IF ok /\ staged /\ message # <<>> THEN
            /\ staged' = FALSE
            /\ unpushed' = <<Subject(message)>> \o unpushed
            /\ Logged("commit", message, TRUE)
            /\ Goto("snapshot")
       ELSE /\ Logged("commit", message, FALSE)
            /\ Return("failed to commit")
            /\ UNCHANGED <<staged, unpushed>>
    /\ UNCHANGED <<branch, unstaged, upstream, jiraCfg, remotes, runLimit>>
    /\ UNCHANGED <<command, stageAll, autoConfirm, hasStaged, unpushedMessages,
                   needsCommit, diff, message, lines, eof, isFirstPush, isMainBranch>>
    /\ UNCHANGED <<tree0, runs, ticketRuns>>

\* isFirstPush, _ := g.IsFirstPushToBranch(); isMainBranch := g.IsMainBranch()
SnapshotStep ==
    /\ pc = "snapshot"
    /\ isFirstPush' = IsFirstPushToBranchOf(upstream)
    /\ isMainBranch' = IsMainBranchOf(branch)
    /\ Logged("snapshot", <<>>, TRUE)
    /\ Goto("push")
    /\ UNCHANGED world
    /\ UNCHANGED <<command, stageAll, autoConfirm, hasStaged, unpushedMessages,
                   needsCommit, diff, message, lines, eof>>
    /\ UNCHANGED <<tree0, runs, ticketRuns>>

\* err = g.Push(): git push <remote> <branch> sends the commits and leaves
\* the tracking configuration alone.  The command is run with the remote
\* GetRemote resolved; git refuses an empty remote name.
PushStep(ok) ==
    /\ pc = "push"
    /\ LET r == GetRemoteOf(remotes)
           sent == ok /\ r.err = "" /\ r.name # <<>>
       IN /\ IF r.err # "" THEN Logged("noRemote", <<>>, FALSE)
             ELSE Logged("push", r.name, sent)
          /\ IF sent THEN
                  /\ unpushed' = <<>>
                  /\ Goto("ticket")
             ELSE /\ Goto("pushU")
                  /\ UNCHANGED unpushed
    /\ UNCHANGED <<branch, staged, unstaged, upstream, jiraCfg, remotes, runLimit>>
    /\ UNCHANGED <<command, stageAll, autoConfirm, hasStaged, unpushedMessages,
                   needsCommit, diff, message, lines, eof, isFirstPush, isMainBranch>>
    /\ UNCHANGED <<tree0, runs, ticketRuns>>

\* PushSetUpstreamStep with the error of the second attempt dropped.
PushSetUpstreamStep_IgnoreError(ok) ==
    /\ pc = "pushU"
    /\ LET r == GetRemoteOf(remotes)
           sent == ok /\ r.err = "" /\ r.name # <<>>
       IN /\ IF r.err # "" THEN Logged("noRemote", <<>>, FALSE)
             ELSE Logged("pushU", r.name, sent)
          /\ IF sent THEN
                  /\ unpushed' = <<>>
                  /\ upstream' = TRUE
             ELSE UNCHANGED <<unpushed, upstream>>
    /\ Goto("ticket")
    /\ UNCHANGED <<branch, staged, unstaged, jiraCfg, remotes, runLimit>>
    /\ UNCHANGED <<command, stageAll, autoConfirm, hasStaged, unpushedMessages,
                   needsCommit, diff, message, lines, eof, isFirstPush, isMainBranch>>
    /\ UNCHANGED <<tree0, runs, ticketRuns>>

\* err = g.PushSetUpstream(): git push -u <remote> <branch> also sets the
\* upstream of the branch.
PushSetUpstreamStep(ok) ==
    /\ pc = "pushU"
    /\ LET r == GetRemoteOf(remotes)
           sent == ok /\ r.err = "" /\ r.name # <<>>
       IN /\ IF r.err # "" THEN Logged("noRemote", <<>>, FALSE)
             ELSE Logged("pushU", r.name, sent)
          /\ IF sent THEN
                  /\ unpushed' = <<>>
                  /\ upstream' = TRUE
                  /\ Goto("ticket")
             ELSE /\ Return("failed to push")
                  /\ UNCHANGED <<unpushed, upstream>>
    /\ UNCHANGED <<branch, staged, unstaged, jiraCfg, remotes, runLimit>>
    /\ UNCHANGED <<command, stageAll, autoConfirm, hasStaged, unpushedMessages,
                   needsCommit, diff, message, lines, eof, isFirstPush, isMainBranch>>
    /\ UNCHANGED <<tree0, runs, ticketRuns>>

\* FormatTitle with the message in front of the key.
FormatTitle_MessageFirst(key, msg) == msg \o <<DELIM>> \o key

\* fmt.Sprintf("%s - %s", issue.Key, commitMessage)
FormatTitle(key, msg) == key \o <<DELIM>> \o msg

\* CreateIssueWithTitle that fails when the transition fails.
CreateIssueWithTitle_TransitionFatal(msg, created, moved, key) ==
    IF ~created
    THEN [title |-> <<>>, err |-> "failed to create issue",
          calls |-> <<Ev("ticket", msg, FALSE)>>]
    ELSE IF ~moved
    THEN [title |-> <<>>, err |-> "failed to transition",
          calls |-> <<Ev("ticket", msg, TRUE), Ev("transition", key, FALSE)>>]
    ELSE [title |-> FormatTitle(key, msg), err |-> "",
          calls |-> <<Ev("ticket", msg, TRUE), Ev("transition", key, TRUE)>>]

\* jira.CreateIssueWithTitle(commitMessage): CreateIssue ("ticket" in the
\* log) answers with the issue and its key or fails; TransitionToInProgress
\* is then tried and its failure only printed.
CreateIssueWithTitle(msg, created, moved, key) ==
    IF ~created
    THEN [title |-> <<>>, err |-> "failed to create issue",
          calls |-> <<Ev("ticket", msg, FALSE)>>]
    ELSE [title |-> FormatTitle(key, msg), err |-> "",
          calls |-> <<Ev("ticket", msg, TRUE), Ev("transition", key, moved)>>]

\* What the ticket block adds to the log: the calls of CreateIssueWithTitle,
\* what it returned and, on success, the key the handler takes from the
\* title (parts[0] of strings.SplitN(title, " - ", 2)).
TicketEvents(r) ==
    r.calls \o <<Ev("title", r.title, r.err = "")>>
            \o (IF r.err = "" THEN <<Ev("issueKey", SplitN2(r.title)[1], TRUE)>>
                ELSE <<>>)

\* TicketGate evaluated on the branch as it is after the push.
TicketGate_AfterPush == ~upstream /\ ~isMainBranch

\* The gate for the Jira ticket, from the values read before the push.
TicketGate == isFirstPush /\ ~isMainBranch

\* The text the generator proposed in this run.
Proposal ==
    IF \E i \in 1..Len(log) : log[i].op = "generate" /\ log[i].ok
    THEN log[CHOOSE i \in 1..Len(log) : log[i].op = "generate" /\ log[i].ok].arg
    ELSE <<>>

\* TicketResult that turns a failed ticket creation into the run's error.
TicketResult_Fatal(created) ==
    IF created THEN "nil" ELSE "failed to create Jira ticket"

\* What the run returns after the ticket attempt: a failure of
\* CreateIssueWithTitle is printed as a warning and the handler returns nil.
TicketResult(created) == "nil"

\* TicketStep titled from the generated proposal instead of the final message.
TicketStep_Proposal(created, moved, key) ==
    /\ pc = "ticket"
    /\ IF TicketGate /\ IsConfigured(jiraCfg) THEN
            /\ log' = log \o TicketEvents(CreateIssueWithTitle(Proposal, created, moved, key))
            /\ ticketRuns' = ticketRuns + 1
       ELSE UNCHANGED <<log, ticketRuns>>
    /\ Return(TicketResult(created))
    /\ UNCHANGED world
    /\ UNCHANGED <<command, stageAll, autoConfirm, hasStaged, unpushedMessages,
                   needsCommit, diff, message, lines, eof, isFirstPush, isMainBranch>>
    /\ UNCHANGED <<tree0, runs>>

\* After the push: create the Jira ticket when the gate holds and Jira is
\* configured; a failure is only a warning.
TicketStep(created, moved, key) ==
    /\ pc = "ticket"
    /\ IF TicketGate /\ IsConfigured(jiraCfg) THEN
            /\ log' = log \o TicketEvents(CreateIssueWithTitle(message, created, moved, key))
            /\ ticketRuns' = ticketRuns + 1
       ELSE UNCHANGED <<log, ticketRuns>>
    /\ Return(TicketResult(created))
    /\ UNCHANGED world
    /\ UNCHANGED <<command, stageAll, autoConfirm, hasStaged, unpushedMessages,
                   needsCommit, diff, message, lines, eof, isFirstPush, isMainBranch>>
    /\ UNCHANGED <<tree0, runs>>

----------------------------------------------------------------------------

Next ==
    \/ \E c \in {"push", "pushx"}, a, y, keyOk, repoOk \in BOOLEAN :
          StartRun(c, a, y, keyOk, repoOk)
    \/ \E s, u \in BOOLEAN : UserEdits(s, u)
    \/ \E ok \in BOOLEAN : StageAllStep(ok)
    \/ \E ok \in BOOLEAN : HasStagedStep(ok)
    \/ \E branchOk, logOk \in BOOLEAN : UnpushedMsgsStep(branchOk, logOk)
    \/ \E ok, shown \in BOOLEAN : StagedDiffStep(ok, shown)
    \/ \E ok1, ok2, ok3 \in BOOLEAN : UnpushedDiffStep(ok1, ok2, ok3)
    \/ \E ok \in BOOLEAN : NoStagedStep(ok)
    \/ \E in \in Answers : ConfirmPushStep(in)
    \/ \E ok \in BOOLEAN, raw \in RawOutputs : GenerateStep(ok, raw)
    \/ \E in \in Answers : ConfirmStep(in)
    \/ \E l \in EditLines, atEof \in BOOLEAN : EditReadStep(l, atEof)
    \/ \E ok \in BOOLEAN : CommitStep(ok)
    \/ SnapshotStep
    \/ \E ok \in BOOLEAN : PushStep(ok)
    \/ \E ok \in BOOLEAN : PushSetUpstreamStep(ok)
    \/ \E created, moved \in BOOLEAN, key \in RunKeys :
          TicketStep(created, moved, key)

Spec == Init /\ [][Next]_vars

SpecRepeat == InitRepeat /\ [][Next]_vars

\* One run on a feature branch of a repository with any list of remotes.
SpecRemote == InitRemote /\ [][Next]_vars

----------------------------------------------------------------------------
\* The packages called on their own: each call is recorded in the log with
\* its inputs and what it returned.

InitLib ==
    /\ branch = "feature/x"
    /\ staged = FALSE
    /\ unstaged = FALSE
    /\ upstream = FALSE
    /\ unpushed = <<>>
    /\ jiraCfg \in {c \in RunConfigs : IsConfigured(c)}
    /\ remotes = <<<<"origin">>>>
    /\ runLimit = 0
    /\ Fresh

\* prompt := buildCommitPrompt(diff, changedFiles)
BuildCommitPromptCall(d) ==
    /\ pc = "idle"
    /\ Len(log) < MaxCalls
    /\ Logged("buildCommitPrompt", <<d, TruncatedDiff(d)>>, TRUE)
    /\ UNCHANGED <<world, local, tree0, runs, ticketRuns>>

\* The git wrapper over any branch, with or without upstream.
InitGit ==
    /\ branch \in Branches
    /\ staged \in BOOLEAN
    /\ unstaged \in BOOLEAN
    /\ upstream \in BOOLEAN
    /\ unpushed \in InitUnpushed
    /\ jiraCfg \in {c \in RunConfigs : IsConfigured(c)}
    /\ remotes = <<<<"origin">>>>
    /\ runLimit = 0
    /\ Fresh

\* g.GetUnpushedCommitMessages(), with the outcome of its git commands
GetUnpushedCommitMessagesCall(branchOk, logOk) ==
    /\ pc = "idle"
    /\ Len(log) < MaxCalls
    /\ LET r == GetUnpushedCommitMessages(branchOk, upstream, logOk, unpushed)
       IN Logged("GetUnpushedCommitMessages", <<branchOk, logOk, r.msgs>>, r.err = "")
    /\ UNCHANGED <<world, local, tree0, runs, ticketRuns>>

NextGit ==
    \/ \E branchOk, logOk \in BOOLEAN : GetUnpushedCommitMessagesCall(branchOk, logOk)

SpecGit == InitGit /\ [][NextGit]_vars

\* A run of push at the point where its push has succeeded, on any branch
\* and with any Jira configuration: --yes was given, the staged changes
\* were committed with the generated message.
InitTicket ==
    /\ branch \in Branches
    /\ staged = FALSE
    /\ unstaged = FALSE
    /\ upstream \in BOOLEAN
    /\ unpushed = <<>>
    /\ jiraCfg \in JiraConfigs
    /\ remotes = <<<<"origin">>>>
    /\ runLimit = 1
    /\ pc = "ticket"
    /\ command = "push"
    /\ stageAll = FALSE
    /\ autoConfirm = TRUE
    /\ hasStaged = TRUE
    /\ unpushedMessages = <<>>
    /\ needsCommit = FALSE
    /\ diff = "staged"
    /\ message \in TicketMessages
    /\ lines = <<>>
    /\ eof = FALSE
    /\ isFirstPush = IsFirstPushToBranchOf(upstream)
    /\ isMainBranch = IsMainBranchOf(branch)
    /\ result = "running"
    /\ log = << Ev("hasStaged", <<>>, TRUE), Ev("unpushedMsgs", <<>>, TRUE),
                Ev("stagedDiff", <<>>, TRUE), Ev("request", <<>>, TRUE),
                Ev("generate", message, TRUE), Ev("commit", message, TRUE),
                Ev("snapshot", <<>>, TRUE), Ev("push", <<"origin">>, TRUE) >>
    /\ tree0 = [staged |-> TRUE, unstaged |-> FALSE, upstream |-> upstream]
    /\ runs = 1
    /\ ticketRuns = 0

NextTicket ==
    \/ \E created, moved \in BOOLEAN, key \in IssueKeys :
          TicketStep(created, moved, key)

SpecTicket == InitTicket /\ [][NextTicket]_vars

NextLib ==
    \/ \E d \in DiffTexts : BuildCommitPromptCall(d)

SpecLib == InitLib /\ [][NextLib]_vars

\* What a run finds in the persisted configuration (api_key, provider) and
\* in the environment when it starts.
Settings ==
    [api_key : {"", "sk-cfg"}, provider : {"", "openai", "anthropic"},
     OPENAI_API_KEY : {"", "sk-openai"}, ANTHROPIC_API_KEY : {"", "sk-ant"}]

\* apiKey := viper.GetString("api_key"), else OPENAI_API_KEY, else
\* ANTHROPIC_API_KEY.
SelectAPIKey(e) ==
    IF e.api_key # "" THEN e.api_key
    ELSE IF e.OPENAI_API_KEY # "" THEN e.OPENAI_API_KEY
    ELSE e.ANTHROPIC_API_KEY

\* provider := viper.GetString("provider"), else anthropic when
\* ANTHROPIC_API_KEY is set, else openai.
SelectProvider(e) ==
    IF e.provider # "" THEN e.provider
    ELSE IF e.ANTHROPIC_API_KEY # "" THEN "anthropic"
    ELSE "openai"

\* The head of a handler up to ai.Config: the settings it found and the
\* provider and key it hands to ai.New; without a key it returns the
\* "API key not configured" error.
AIConfigCall(e) ==
    /\ pc = "idle"
    /\ Len(log) < MaxCalls
    /\ Logged("aiConfig",
              <<e, [Provider |-> SelectProvider(e), APIKey |-> SelectAPIKey(e)]>>,
              SelectAPIKey(e) # "")
    /\ UNCHANGED <<world, local, tree0, runs, ticketRuns>>

NextKey ==
    \/ \E e \in Settings : AIConfigCall(e)

SpecKey == InitLib /\ [][NextKey]_vars

----------------------------------------------------------------------------
\* Reading the log of the current run

At(op) == {i \in 1..Len(log) : log[i].op = op}
AtOk(op) == {i \in At(op) : log[i].ok}
AtFailed(op) == {i \in At(op) : ~log[i].ok}
Pushes == At("push") \cup At("pushU")
PushedOk == AtOk("push") \cup AtOk("pushU")
Answered(d) == \E i \in At("confirm") : log[i].arg = <<d>>
TreeAsAtStart == staged = tree0.staged /\ unstaged = tree0.unstaged
QueryOps == {"hasStaged", "unpushedMsgs", "stagedDiff", "unpushedDiff", "allDiff",
             "hasUnstaged"}
NoQueryFailed == \A i \in 1..Len(log) : log[i].op \in QueryOps => log[i].ok
\* The branch held no unpushed commit when the run started: it holds none
\* now and the run has neither committed nor pushed.
NoUnpushedAtStart == unpushed = <<>> /\ PushedOk = {} /\ AtOk("commit") = {}
Mutations == At("stageAll") \cup At("commit") \cup Pushes
Aborted ==
    \/ Answered("reject") \/ Answered("invalid")
    \/ \E i \in At("confirmPush") : log[i].arg = <<"reject">>
IsLine(e) == e.op = "line"
Typed == LET sel == SelectSeq(log, IsLine) IN [i \in 1..Len(sel) |-> sel[i].arg]

----------------------------------------------------------------------------
\* C1: in a run that found staged changes, every push attempt (plain or
\* upstream-setting) comes after a successful commit of the same run, and
\* the run never stands at a push with the staged changes uncommitted.
C1_CommitBeforePush ==
    hasStaged =>
        /\ \A i \in Pushes : \E j \in AtOk("commit") : j < i
        /\ pc \in {"push", "pushU"} => (~staged /\ AtOk("commit") # {})

C1_Witness ==
    /\ hasStaged
    /\ AtOk("commit") # {}
    /\ AtFailed("push") # {}
    /\ AtOk("pushU") # {}

\* C2 (as stated): a run whose message confirmation was answered with a
\* reject commits nothing, pushes nothing, creates no ticket, returns no
\* error and leaves the staged/unstaged state as it was at the start.
C2_RejectNoSideEffects ==
    Answered("reject") =>
        /\ pc = "done" /\ result = "nil"
        /\ At("commit") = {} /\ Pushes = {} /\ At("ticket") = {}
        /\ TreeAsAtStart

\* C3: a run that starts on a branch with an upstream never calls
\* CreateIssueWithTitle.
C3_UpstreamNoTicket ==
    (runs > 0 /\ tree0.upstream) => At("ticket") = {}

C3_Witness ==
    /\ tree0.upstream
    /\ pc = "done" /\ result = "nil"
    /\ PushedOk # {}
    /\ ~IsMainBranchOf(branch)
    /\ IsConfigured(jiraCfg)

C5_TicketOnceWithCommitMessage ==
    (/\ pc = "done" /\ hasStaged
     /\ isFirstPush /\ ~isMainBranch
     /\ PushedOk # {}
     /\ IsConfigured(jiraCfg))
    =>
        /\ Cardinality(At("ticket")) = 1
        /\ \A t \in At("ticket") :
              /\ \A i \in PushedOk : i < t
              /\ \A c \in AtOk("commit") : log[t].arg = log[c].arg
              /\ log[t].arg = IF Answered("edit") THEN Join(lines, NL) ELSE Proposal

C5_Witness ==
    /\ pc = "done" /\ hasStaged
    /\ isFirstPush /\ ~isMainBranch
    /\ Answered("edit") /\ Len(lines) = 2 /\ lines[1] # lines[2]
    /\ \E t \in At("ticket") : log[t].arg = Join(lines, NL) /\ log[t].arg # Proposal

\* C6 (as stated): over consecutive runs on one feature branch with the
\* tracker configured, CreateIssueWithTitle is called in at most one run.
C6_TicketInOneRunOnly == ticketRuns <= 1

\* C7: the plain push is tried first and once; the upstream-setting push is
\* tried once, exactly when the plain push failed; when both fail the run
\* returns the push error without a ticket; after a success no other push
\* is tried.
C7_PushThenSetUpstream ==
    /\ Cardinality(At("push")) <= 1
    /\ Cardinality(At("pushU")) <= 1
    /\ \A i \in At("pushU") : i > 1 /\ log[i - 1].op = "push" /\ ~log[i - 1].ok
    /\ \A i \in AtFailed("push") : pc = "pushU" \/ (i < Len(log) /\ log[i + 1].op = "pushU")
    /\ \A i \in PushedOk : \A j \in Pushes : j <= i
    /\ AtFailed("pushU") # {} =>
          /\ pc = "done" /\ result = "failed to push"
          /\ At("ticket") = {}

C7_Witness ==
    /\ AtFailed("push") # {}
    /\ AtFailed("pushU") # {}
    /\ pc = "done"
    /\ ~tree0.upstream /\ ~IsMainBranchOf(branch) /\ IsConfigured(jiraCfg)

C9_GeneratorFailure ==
    (hasStaged /\ AtFailed("generate") # {}) =>
        /\ pc = "done" /\ result = "failed to generate commit message"
        /\ At("commit") = {} /\ Pushes = {} /\ At("ticket") = {}
        /\ staged

C9_Witness ==
    /\ hasStaged
    /\ AtFailed("generate") # {}
    /\ command = "pushx"
    /\ pc = "done"

\* C10 (as stated): a run that ends with a generation error has performed no
\* mutating repository operation, whatever the stage-all flag: the working
\* tree and the index are as they were when the run started.
C10_GenerationErrorNoMutation ==
    AtFailed("generate") # {} =>
        /\ At("stageAll") = {} /\ At("commit") = {} /\ Pushes = {}
        /\ TreeAsAtStart

\* C11: after the edit answer, the message handed to commit is exactly the
\* non-empty lines the user typed, in the order typed, separated by single
\* newlines; the generated proposal is not part of it.
C11_EditReplacesMessage ==
    Answered("edit") =>
        \A i \in At("commit") :
            /\ Typed # <<>>
            /\ Split(log[i].arg, NL) = Typed

C11_Witness ==
    /\ Answered("edit")
    /\ Len(Typed) = 2 /\ Typed[1] # Typed[2]
    /\ Proposal # <<>>
    /\ \E i \in AtOk("commit") : log[i].arg = Typed[1] \o <<NL>> \o Typed[2]

\* C12 (as stated): when the first line entered in the edit step is the
\* empty line, the edit step has ended with no line collected and the run
\* goes on with the generated proposal as its message.
C12_ZeroLinesKeepsProposal ==
    At("blank") # {} =>
        /\ pc # "edit"
        /\ Typed = <<>>
        /\ message = Proposal

\* C13 (as stated): an answer that is no accept, no reject and no offered
\* edit, given at the message prompt or at the push prompt, ends the run
\* without error and without commit, push or ticket.
C13_InvalidInputAborts ==
    (\/ Answered("invalid")
     \/ \E i \in At("confirmPush") : log[i].arg = <<"invalid">>) =>
        /\ pc = "done" /\ result = "nil"
        /\ At("commit") = {} /\ Pushes = {} /\ At("ticket") = {}

\* C14 (as stated): a run that finds nothing staged, on a branch with no
\* unpushed commit and a clean working tree, calls neither the generator nor
\* commit, push or ticket creation, and ends with the no-changes error.
C14_NothingToDoIsAnError ==
    (/\ AtOk("hasStaged") # {} /\ NoQueryFailed
     /\ ~tree0.staged /\ ~tree0.unstaged /\ NoUnpushedAtStart) =>
        /\ At("generate") = {} /\ At("commit") = {}
        /\ Pushes = {} /\ At("ticket") = {}
        /\ pc = "done" => result = "no changes to commit or push"

\* C15 (as stated): a run that finds nothing staged on a branch with no
\* unpushed commit attempts no commit and no push, and ends with the
\* no-staged-changes error exactly when the working tree holds unstaged
\* changes, with the no-changes error otherwise.
C15_UnstagedDecidesTheError ==
    (/\ AtOk("hasStaged") # {} /\ ~hasStaged /\ NoQueryFailed
     /\ NoUnpushedAtStart) =>
        /\ At("commit") = {} /\ Pushes = {}
        /\ pc = "done" =>
              result = IF unstaged THEN "you have unstaged changes"
                       ELSE "no changes to commit or push"

\* C16 (as stated): the generator is called only in a run that observed
\* staged changes.
C16_GenerateOnlyWhenStaged ==
    At("generate") # {} => (AtOk("hasStaged") # {} /\ hasStaged)

\* C17: in a run that found nothing staged, commit is never invoked, the
\* first mutation of the repository after the inspection is the plain push,
\* and a run over unpushed commits that ends well without having been
\* aborted at a prompt has attempted that push.
C17_UnpushedOnlyGoesToPush ==
    (AtOk("hasStaged") # {} /\ ~hasStaged) =>
        /\ At("commit") = {}
        /\ \A i \in Mutations :
              (/\ \E q \in AtOk("hasStaged") : q < i
               /\ \A j \in Mutations : j < i => \E q \in AtOk("hasStaged") : j < q)
              => log[i].op = "push"
        /\ (pc = "done" /\ result = "nil" /\ ~Aborted) => At("push") # {}

C17_Witness ==
    /\ AtOk("hasStaged") # {} /\ ~hasStaged
    /\ Len(unpushedMessages) > 0
    /\ \E i \in At("confirmPush") : log[i].arg = <<"accept">>
    /\ AtOk("push") # {}
    /\ pc = "done"

\* C18: once the push has succeeded and the ticket creation was attempted
\* and failed, the run still returns nil, as it does when the ticket is
\* created, and the commit and the push stand: nothing is staged again and
\* no commit is left unpushed.
C18_TicketFailureIsNotFatal ==
    AtFailed("ticket") # {} =>
        /\ pc = "done" /\ result = "nil"
        /\ PushedOk # {} /\ unpushed = <<>>
        /\ AtOk("commit") # {} => ~staged

C18_Witness ==
    /\ AtFailed("ticket") # {}
    /\ AtOk("commit") # {}
    /\ PushedOk # {}
    /\ pc = "done"

\* C19 (as stated): a repository read query that fails ends the run with an
\* error, and no commit, push or ticket creation follows the failed query.
C19_QueryFailureAborts ==
    \A i \in 1..Len(log) :
        (log[i].op \in QueryOps /\ ~log[i].ok) =>
            /\ pc = "done" /\ result \notin {"nil", "running"}
            /\ \A j \in Mutations \cup At("ticket") : j < i

\* C20 (as stated): every push command goes to "origin" when a remote of
\* that name is configured and to the first configured remote otherwise;
\* with no remote configured no push command is attempted and the push
\* fails with the no-remote error.
C20_DefaultRemote ==
    /\ \A i \in Pushes :
          /\ remotes # <<>>
          /\ log[i].arg = IF \E k \in 1..Len(remotes) : remotes[k] = <<"origin">>
                          THEN <<"origin">> ELSE remotes[1]
    /\ (remotes = <<>> /\ pc \in {"pushU", "ticket", "done"} /\ At("snapshot") # {})
          => At("noRemote") # {}

\* Reading the recorded calls of buildCommitPrompt
PromptCalls == At("buildCommitPrompt")
DiffIn(i) == log[i].arg[1]
DiffOut(i) == log[i].arg[2]
\* complete characters of a text
CharLen(t) == t.narrow + t.wide
IsPrefix(p, t) ==
    \/ p.narrow <= t.narrow /\ p.wide = 0 /\ p.half = 0
    \/ p.narrow = t.narrow /\ 2 * p.wide + p.half <= 2 * t.wide + t.half

\* C21 (as stated): a diff of at most 12000 characters is sent unchanged
\* and without marker, a longer one as its first 12000 characters followed
\* by the marker, and equal diffs give equal request texts.
C21_TruncationByCharacters ==
    /\ \A i \in PromptCalls :
          IF CharLen(DiffIn(i)) <= maxDiffLen
          THEN DiffOut(i) = [text |-> DiffIn(i), marker |-> FALSE]
          ELSE /\ DiffOut(i).marker
               /\ IsPrefix(DiffOut(i).text, DiffIn(i))
               /\ DiffOut(i).text.half = 0
               /\ CharLen(DiffOut(i).text) = maxDiffLen
    /\ \A i, j \in PromptCalls : DiffIn(i) = DiffIn(j) => DiffOut(i) = DiffOut(j)

\* C21 (amended): the budget counts bytes.  A diff of at most 12000 bytes
\* is sent unchanged and without marker, a longer one as its first 12000
\* bytes followed by the marker, and equal diffs give equal request texts.
C21_TruncationByBytes ==
    /\ \A i \in PromptCalls :
          IF ByteLen(DiffIn(i)) <= maxDiffLen
          THEN DiffOut(i) = [text |-> DiffIn(i), marker |-> FALSE]
          ELSE /\ DiffOut(i).marker
               /\ IsPrefix(DiffOut(i).text, DiffIn(i))
               /\ ByteLen(DiffOut(i).text) = maxDiffLen
    /\ \A i, j \in PromptCalls : DiffIn(i) = DiffIn(j) => DiffOut(i) = DiffOut(j)

C21_Witness ==
    \E i, j \in PromptCalls :
        /\ ByteLen(DiffIn(i)) = maxDiffLen /\ ~DiffOut(i).marker
        /\ ByteLen(DiffIn(j)) > maxDiffLen /\ DiffIn(j).wide > 0
        /\ DiffOut(j).marker /\ DiffOut(j).text # DiffIn(j)

\* C22: a run that observed staged changes takes the staged path whether or
\* not unpushed commits exist: it never stands at, nor performs, the push
\* confirmation, the unpushed diff or the unstaged check, never ends with the
\* no-changes or no-staged-changes error, and every push it attempts follows
\* a generation, the confirmation (unless auto-confirmed) and a commit.
C22_StagedFirst ==
    (AtOk("hasStaged") # {} /\ hasStaged) =>
        /\ pc \notin {"noStaged", "confirmPush", "unpushedDiff"}
        /\ At("confirmPush") = {} /\ At("hasUnstaged") = {} /\ At("unpushedDiff") = {}
        /\ result \notin {"you have unstaged changes", "no changes to commit or push"}
        /\ \A i \in Pushes :
              \E g \in AtOk("generate"), c \in AtOk("commit") :
                  /\ g < c /\ c < i
                  /\ ~autoConfirm => \E a \in At("confirm") : g < a /\ a < c

C22_Witness ==
    /\ hasStaged
    /\ Len(unpushedMessages) > 0
    /\ AtOk("commit") # {}
    /\ PushedOk # {}
    /\ pc = "done"

\* C23: StageAll is the first operation of a run that was asked to stage
\* everything: it precedes the staged check and every other query.  When it
\* fails the run ends with the staging error and nothing else is done.
C23_StageAllFirst ==
    /\ \A i \in At("stageAll") : i = 1
    /\ (/\ stageAll /\ pc \notin {"idle", "stageAll"}
        /\ result \notin {"API key not configured", "not a git repository"})
          => At("stageAll") # {}
    /\ AtFailed("stageAll") # {} =>
          /\ pc = "done" /\ result = "failed to stage changes"
          /\ Len(log) = 1

C23_Witness ==
    /\ AtOk("stageAll") # {}
    /\ \E i \in AtOk("hasStaged") : i > 1
    /\ tree0.unstaged /\ ~tree0.staged /\ hasStaged
    /\ PushedOk # {}

\* C24: when the commit fails the run ends at once with the commit error:
\* no upstream snapshot is taken, neither push is attempted and no ticket is
\* created.
C24_CommitFailureStops ==
    AtFailed("commit") # {} =>
        /\ pc = "done" /\ result = "failed to commit"
        /\ At("snapshot") = {} /\ Pushes = {} /\ At("ticket") = {}

C24_Witness ==
    /\ AtFailed("commit") # {}
    /\ hasStaged /\ staged
    /\ message # <<>>
    /\ pc = "done"

C27_NoUpstreamIsNoError ==
    \A i \in At("GetUnpushedCommitMessages") :
        LET branchOk == log[i].arg[1]
            logOk == log[i].arg[2]
            msgs == log[i].arg[3]
        IN /\ (branchOk /\ ~upstream) => (log[i].ok /\ msgs = <<>>)
           /\ ~log[i].ok <=> (~branchOk \/ (upstream /\ ~logOk))
           /\ ~log[i].ok => msgs = <<>>
           /\ (log[i].ok /\ upstream) =>
                 /\ Len(msgs) = Len(unpushed)
                 /\ \A k \in 1..Len(msgs) :
                       SubSeq(msgs[k], 3, Len(msgs[k])) = unpushed[k]

C27_Witness ==
    /\ ~upstream /\ unpushed # <<>>
    /\ \E i \in AtOk("GetUnpushedCommitMessages") :
          log[i].arg[1] /\ ~log[i].arg[2] /\ log[i].arg[3] = <<>>
    /\ \E i \in AtFailed("GetUnpushedCommitMessages") : ~log[i].arg[1]

\* The calls a run made to the ticket service.
ServiceCalls == At("ticket") \cup At("transition")

\* The four settings of the Jira client of this run.
JiraSettings == {jiraCfg.BaseURL, jiraCfg.Email, jiraCfg.APIToken, jiraCfg.Project}

\* C28: the Jira client counts as configured exactly when base URL, email,
\* API token and project key are all non-empty: a finished run whose gate
\* held called the ticket service exactly in that case, and with a setting
\* missing it made no call to the service and returned success after its
\* push.
C28_UnconfiguredMakesNoCall ==
    /\ IsConfigured(jiraCfg) <=> "" \notin JiraSettings
    /\ (pc = "done" /\ TicketGate) =>
          /\ At("ticket") # {} <=> "" \notin JiraSettings
          /\ "" \in JiraSettings =>
                /\ ServiceCalls = {}
                /\ At("title") = {}
                /\ result = "nil"
                /\ PushedOk # {}

C28_Witness ==
    /\ pc = "done" /\ TicketGate
    /\ jiraCfg.Project = "" /\ jiraCfg.BaseURL # "" /\ jiraCfg.Email # ""
    /\ jiraCfg.APIToken # ""
    /\ ServiceCalls = {}
    /\ result = "nil"
    /\ PushedOk # {}

\* C29: CreateIssueWithTitle creates the issue before it tries the
\* transition to In Progress: after a failed creation it returns an error
\* and tries no transition; after a successful one it tries the transition
\* of the created issue and returns "<KEY> - <message>" without error,
\* whether the transition succeeded or not.
C29_CreateThenTransition ==
    /\ \A tr \in At("transition") : \E t \in AtOk("ticket") : t < tr
    /\ \A t \in At("ticket") :
          /\ At("title") = {t + 1 + Cardinality(At("transition"))}
          /\ ~log[t].ok =>
                /\ At("transition") = {}
                /\ AtFailed("title") # {}
          /\ log[t].ok =>
                /\ At("transition") = {t + 1}
                /\ \A ttl \in At("title") :
                      /\ log[ttl].ok
                      /\ log[ttl].arg = log[t + 1].arg \o <<DELIM>> \o log[t].arg

C29_Witness ==
    /\ AtOk("ticket") # {}
    /\ AtFailed("transition") # {}
    /\ \E ttl \in AtOk("title") :
          \E k \in IssueKeys : log[ttl].arg = k \o <<DELIM>> \o message

\* C30: the key the handler takes from the title returned by
\* CreateIssueWithTitle (the text before the first " - ", the whole title
\* without one) is the key of the issue Jira created, whatever the key
\* (<PROJECT>-<number>, which holds no blank) and whatever the commit
\* message, a message holding " - " included.
C30_KeyRecoveredFromTitle ==
    \A k \in At("issueKey") :
        \E t \in AtOk("ticket") :
            /\ log[t + 1].op = "transition"
            /\ log[k].arg = log[t + 1].arg
            /\ log[k].arg \in IssueKeys
            /\ log[k - 1].op = "title"
            /\ log[k - 1].arg = log[k].arg \o <<DELIM>> \o log[t].arg

C30_Witness ==
    /\ IndexOf(message, DELIM) > 0
    /\ \E k \in At("issueKey") :
          /\ log[k].arg = <<"P-20">>
          /\ log[k - 1].arg = <<"P-20", DELIM>> \o message

\* C31 (as stated): the edit loop stops once an empty line was entered or
\* the input has ended: no run stands in the loop after it read an empty
\* line or met the end of the input.
C31_EditLoopStops ==
    pc = "edit" => (~eof /\ At("blank") = {})

\* C32 (as stated): a run that finds nothing staged on a branch without
\* upstream that holds local commits, with no query of the repository
\* failing, goes to the push step: it does not end with the no-changes or
\* the unstaged-changes error.
C32_NoUpstreamBranchIsPushed ==
    (/\ pc = "done"
     /\ AtOk("hasStaged") # {} /\ ~hasStaged /\ NoQueryFailed
     /\ ~tree0.upstream /\ unpushed # <<>>) =>
        result \notin {"no changes to commit or push", "you have unstaged changes"}

\* C33 (as stated): the path that only pushes existing commits can create
\* a ticket.  A run of push on a branch other than main/master that never
\* had an upstream and holds local commits, with nothing staged, Jira
\* configured, no query or push failing and the user not declining, has
\* taken its snapshot without upstream and has called CreateIssueWithTitle
\* with the subject of the most recent unpushed commit.
C33_UnpushedOnlyCreatesTicket ==
    (/\ pc = "done" /\ command = "push"
     /\ AtOk("hasStaged") # {} /\ ~hasStaged /\ NoQueryFailed
     /\ ~Aborted /\ result # "failed to push"
     /\ ~tree0.upstream /\ (unpushed # <<>> \/ PushedOk # {})
     /\ ~IsMainBranchOf(branch) /\ IsConfigured(jiraCfg)) =>
        /\ isFirstPush
        /\ unpushedMessages # <<>>
        /\ \E t \in At("ticket") :
              log[t].arg = SubSeq(unpushedMessages[1], 3, Len(unpushedMessages[1]))

\* C34 (as stated): the message handed to g.Commit and the message handed
\* to CreateIssueWithTitle is never empty.
C34_MessageNeverEmpty ==
    \A i \in At("commit") \cup At("ticket") : log[i].arg # <<>>

\* C35 (as stated): with neither key nor provider in the persisted
\* configuration, the key handed to the generator is the value of the
\* environment variable of the selected provider: OPENAI_API_KEY for
\* openai, ANTHROPIC_API_KEY for anthropic.
C35_KeyMatchesProvider ==
    \A i \in AtOk("aiConfig") :
        LET e == log[i].arg[1]
            cfg == log[i].arg[2]
        IN (e.api_key = "" /\ e.provider = "") =>
              /\ cfg.Provider \in {"openai", "anthropic"}
              /\ cfg.Provider = "openai" => cfg.APIKey = e.OPENAI_API_KEY
              /\ cfg.Provider = "anthropic" => cfg.APIKey = e.ANTHROPIC_API_KEY

====
